---------------------------- MODULE Spec2Model ----------------------------
(***************************************************************************)
(* A model of the Data-Information-System loader and cleaner:              *)
(*   FileLoader.py  smart_load and its lru_cache keyed by (path, hash)     *)
(*   Core.py        infer_and_convert_series, clean_file and               *)
(*                  find_similar_col_to_remove                             *)
(* The module holds four specifications over one set of variables:         *)
(*   Spec       the process-wide cache under loads and file modifications  *)
(*   SpecInfer  infer_and_convert_series on one column                     *)
(*   SpecClean  the cleaning pipeline of clean_file on one loaded table    *)
(*   SpecCorr   find_similar_col_to_remove on one numeric table            *)
(* pandas, numpy and libmagic are black boxes: a raw string carries the    *)
(* set of parsers that accept it, a file carries what the sniffer and the  *)
(* reader make of it.                                                      *)
(***************************************************************************)
EXTENDS Integers, Sequences, FiniteSets, TLC

VARIABLES
    files,      \* Spec: tracked path -> the file's current state on disk
    cache,      \* Spec: the lru_cache of load_file_cached, most recent first
    log,        \* Spec: history of the smart_load calls made so far
    calls,      \* Spec: number of calls made after the warm-up
    fresh,      \* Spec: number of unchanging files asked for so far
    series,     \* SpecInfer: the column handed to infer_and_convert_series
    inferred,   \* SpecInfer: its result, or NotRun
    loaded,     \* SpecClean: the table smart_load returned to clean_file
    cleaned,    \* SpecClean: the table clean_file returned, or NotRun
    df,         \* SpecCorr: the table smart_load returned
    reduced     \* SpecCorr: the table find_similar_col_to_remove returned

vars == <<files, cache, log, calls, fresh, series, inferred, loaded, cleaned, df, reduced>>

NotRun == [done |-> FALSE]

(***************************************************************************)
(* Small helpers on sequences.                                             *)
(***************************************************************************)
Range(s) == {s[i] : i \in DOMAIN s}

SelectIdx(s, keep) ==
    LET F[i \in 0..Len(s)] ==
            IF i = 0 THEN <<>>
            ELSE IF i \in keep THEN Append(F[i - 1], s[i]) ELSE F[i - 1]
    IN F[Len(s)]

SeqsUpTo(S, n) == UNION {[1..k -> S] : k \in 1..n}

(***************************************************************************)
(*                    FileLoader.py: files and the cache                   *)
(***************************************************************************)

\* Bounds of the cache specification.
NContents == 2      \* distinct well-formed contents the tracked file takes
MaxCalls == 2       \* smart_load calls made after the warm-up

\* @lru_cache(maxsize=32)
maxsize == 32

\* One path is followed through modifications (Tests.py's test_data.csv);
\* the other paths, 1, 2, ..., are files that never change.
TrackedPaths == {0}

Formats == <<"csv", "excel", "json">>

\* What is on disk at a path: nothing readable, bytes the sniffer rejects,
\* delimited text the reader rejects, or well-formed bytes number data.
FileStates ==
    {[kind |-> "absent", data |-> 0],
     [kind |-> "unsupported", data |-> 0],
     [kind |-> "csv", data |-> 0]}
    \cup {[kind |-> Formats[((c - 1) % 3) + 1], data |-> c] : c \in 1..NContents}

FillerFile == [kind |-> "csv", data |-> 1]

FileOf(fs, p) == IF p \in TrackedPaths THEN fs[p] ELSE FillerFile

\* validate_file: raises unless the file exists and is readable.
validate_file(f) == f.kind # "absent"

\* get_file_hash: the MD5 digest of the bytes; distinct bytes are taken to
\* have distinct digests.
get_file_hash(f) == <<"md5", f.kind, f.data>>

\* detect_file_type: the format tag, or "ValueError".
detect_file_type(f) ==
    IF f.kind \in {"csv", "excel", "json"} THEN f.kind ELSE "ValueError"

\* The table pandas reads out of well-formed bytes.
ParsedTable(p, f) == [path |-> p, format |-> f.kind, rows |-> f.data]

\* load_csv / load_excel / load_json: the reader raises on data 0.
Parser(fmt) == "load_" \o fmt

\* load_file: validate, sniff, dispatch to the format's parser.
load_file(p, f) ==
    IF ~validate_file(f)
    THEN [outcome |-> "FileNotFoundError", parser |-> "none", table |-> NotRun]
    ELSE IF detect_file_type(f) = "ValueError"
    THEN [outcome |-> "ValueError", parser |-> "none", table |-> NotRun]
    ELSE IF f.data = 0
    THEN [outcome |-> "Exception", parser |-> Parser(detect_file_type(f)),
          table |-> NotRun]
    ELSE [outcome |-> "table", parser |-> Parser(detect_file_type(f)),
          table |-> ParsedTable(p, f)]

\* The key lru_cache builds from load_file_cached's arguments: both of them.
\* (CacheKeyPathOnly: a cache keyed by the path alone.)
CacheKeyPathOnly(file_path, file_hash) == <<file_path>>
CacheKey(file_path, file_hash) == <<file_path, file_hash>>

CacheFind(c, key) == {i \in DOMAIN c : c[i].key = key}

\* lru_cache after a miss whose call returned: the new entry is the most
\* recent one, and the least recently used one goes when the cache is full.
DropIdx(c, i) == [k \in 1..(Len(c) - 1) |-> IF k < i THEN c[k] ELSE c[k + 1]]

\* (InsertEvictEarly: a cache that is full one entry early.)
InsertEvictEarly(c, e) ==
    IF Len(c) >= maxsize - 1 THEN <<e>> \o SubSeq(c, 1, maxsize - 2) ELSE <<e>> \o c
InsertEvict(c, e) ==
    IF Len(c) >= maxsize THEN <<e>> \o SubSeq(c, 1, maxsize - 1) ELSE <<e>> \o c

\* lru_cache on a hit: the entry becomes the most recent one.
Touch(c, i) == <<c[i]>> \o DropIdx(c, i)

\* load_file_cached(file_path, file_hash): a hit returns the stored table;
\* a miss runs load_file and stores what it returns (an exception stores
\* nothing).
load_file_cached(c, p, f) ==
    LET key == CacheKey(p, get_file_hash(f))
        hit == CacheFind(c, key)
    IN  IF hit # {}
        THEN LET i == CHOOSE i \in hit : TRUE
             IN [cache |-> Touch(c, i),
                 res |-> [outcome |-> "table", parser |-> "none",
                          table |-> c[i].table]]
        ELSE LET r == load_file(p, f)
             IN [cache |-> IF r.outcome = "table"
                           THEN InsertEvict(c, [key |-> key, table |-> r.table])
                           ELSE c,
                 res |-> r]

\* One call as the log keeps it: the key handed to load_file_cached (<<>>
\* when the call never got that far), how the call ended and the parser run.
LogEntry(key, use_cache, r) ==
    [key |-> key, use_cache |-> use_cache, outcome |-> r.outcome,
     parser |-> r.parser]

\* smart_load(file_path, use_cache): the state of cache and log after it.
smart_load(st, fs, p, use_cache) ==
    LET f == FileOf(fs, p)
        key == <<p, get_file_hash(f)>>
    IN  IF ~validate_file(f)
        THEN [cache |-> st.cache,
              log |-> Append(st.log, LogEntry(<<>>, use_cache, load_file(p, f)))]
        ELSE IF use_cache
        THEN LET r == load_file_cached(st.cache, p, f)
             IN [cache |-> r.cache,
                 log |-> Append(st.log, LogEntry(key, TRUE, r.res))]
        ELSE [cache |-> st.cache,
              log |-> Append(st.log, LogEntry(key, FALSE, load_file(p, f)))]

\* Warm-ups the model starts from: the process has loaded the tracked file
\* first or not, then n files that never change, each once, all with
\* caching on. Fewer than maxsize + 1 calls, so nothing was evicted yet.
WarmupSizes == {0, maxsize - 2, maxsize - 1}
WarmupPaths(first, n) ==
    (IF first THEN <<0>> ELSE <<>>) \o [i \in 1..n |-> i]

WarmupEntry(fs, p) ==
    LogEntry(<<p, get_file_hash(FileOf(fs, p))>>, TRUE, load_file(p, FileOf(fs, p)))

WarmupLog(fs, paths) == [i \in 1..Len(paths) |-> WarmupEntry(fs, paths[i])]

WarmupCache(fs, paths) ==
    [i \in 1..Len(paths) |->
        LET p == paths[Len(paths) + 1 - i]
        IN [key |-> CacheKey(p, get_file_hash(FileOf(fs, p))),
            table |-> ParsedTable(p, FileOf(fs, p))]]

InitFiles == [p \in TrackedPaths |-> [kind |-> "csv", data |-> 1]]

Idle ==
    /\ series = <<>> /\ inferred = NotRun
    /\ loaded = NotRun /\ cleaned = NotRun
    /\ df = NotRun /\ reduced = NotRun

Init ==
    /\ files = InitFiles
    /\ \E first \in BOOLEAN, n \in WarmupSizes :
          /\ cache = WarmupCache(InitFiles, WarmupPaths(first, n))
          /\ log = WarmupLog(InitFiles, WarmupPaths(first, n))
          /\ fresh = n
    /\ calls = 0
    /\ Idle

\* Paths a caller asks for: the tracked one, the oldest of the unchanging
\* files, and one never asked for before.
NextFiller == fresh + 1
CallablePaths == TrackedPaths \cup {1, NextFiller}

\* What an operation leaves of the DataFrame object smart_load handed it.
\* clean_file works on df.copy(); preview_file, the correlation_matrix_*
\* functions and find_similar_col_to_remove only call methods that build new
\* frames (head, to_dict, corr, drop). None writes to the object.
ObjectAfter(op, t) == t

\* One entry point called on path p: the smart_load inside it, then what the
\* operation does to the object it got, which on a cached call is the cache's
\* most recent entry.
Invoke(op, p, use_cache) ==
    /\ calls < MaxCalls
    /\ LET st == smart_load([cache |-> cache, log |-> log], files, p, use_cache)
           last == st.log[Len(st.log)]
       IN /\ cache' = IF use_cache /\ last.outcome = "table"
                      THEN [st.cache EXCEPT ![1].table = ObjectAfter(op, @)]
                      ELSE st.cache
          /\ log' = st.log
    /\ calls' = calls + 1
    /\ fresh' = IF p = NextFiller THEN fresh + 1 ELSE fresh
    /\ UNCHANGED <<files, series, inferred, loaded, cleaned, df, reduced>>

SmartLoad(p, use_cache) == Invoke("smart_load", p, use_cache)
CleanFileCall(p) == Invoke("clean_file", p, TRUE)
PreviewFile(p) == Invoke("preview_file", p, TRUE)
CorrelationMatrix(p, method) == Invoke("correlation_matrix_" \o method, p, TRUE)
FindSimilarCall(p) == Invoke("find_similar_col_to_remove", p, TRUE)

\* Something outside the program rewrites, replaces or removes the file.
ModifyFile(p, f) ==
    /\ files[p] # f
    /\ files' = [files EXCEPT ![p] = f]
    /\ UNCHANGED <<cache, log, calls, fresh, series, inferred, loaded, cleaned,
                   df, reduced>>

Next ==
    \/ \E p \in CallablePaths : SmartLoad(p, TRUE)
    \/ \E p \in TrackedPaths : SmartLoad(p, FALSE)
    \/ \E p \in CallablePaths : CleanFileCall(p)
    \/ \E p \in CallablePaths : PreviewFile(p)
    \/ \E p \in CallablePaths, m \in {"pearson", "kendall", "spearman"} :
          CorrelationMatrix(p, m)
    \/ \E p \in CallablePaths : FindSimilarCall(p)
    \/ \E p \in TrackedPaths, f \in FileStates : ModifyFile(p, f)

Spec == Init /\ [][Next]_vars

(***************************************************************************)
(*                         Claims on the cache                             *)
(***************************************************************************)

\* Calls that reached load_file_cached: caching on, file present.
Keyed(i) == log[i].use_cache /\ log[i].key # <<>>

\* The cached calls before call j on the same (path, hash) as call j.
Earlier(j) == {i \in 1..(j - 1) : Keyed(i) /\ log[i].key = log[j].key}

\* The last of them: with j, two consecutive loads of the same bytes.
Previous(j) == CHOOSE i \in Earlier(j) : \A k \in Earlier(j) : k <= i

\* The other distinct keys looked up between calls i and j.
OthersBetween(i, j) ==
    {log[k].key : k \in {k \in (i + 1)..(j - 1) : Keyed(k)}} \ {log[j].key}

\* C1 as stated: whenever a path is loaded twice with the same bytes and fewer
\* than maxsize other distinct keys in between, the second call does not run
\* a format-specific parser.
C1_Original ==
    \A j \in DOMAIN log :
        (/\ Keyed(j)
         /\ Earlier(j) # {}
         /\ Cardinality(OthersBetween(Previous(j), j)) < maxsize)
            => log[j].parser = "none"

\* C1, amended: the same, for a first call that returned a table (a call
\* whose parser raised stores nothing, and the next call parses again).
C1_SecondLoadSkipsParser ==
    \A j \in DOMAIN log :
        (/\ Keyed(j)
         /\ Earlier(j) # {}
         /\ log[Previous(j)].outcome = "table"
         /\ Cardinality(OthersBetween(Previous(j), j)) < maxsize)
            => (log[j].parser = "none" /\ log[j].outcome = "table")

\* The claim's case at its edge: maxsize - 1 other keys in between, a hit.
C1_Witness ==
    \E j \in DOMAIN log :
        /\ Keyed(j)
        /\ Earlier(j) # {}
        /\ log[Previous(j)].outcome = "table"
        /\ Cardinality(OthersBetween(Previous(j), j)) = maxsize - 1
        /\ log[j].parser = "none"

MaxLen == 3         \* rows of the column handed to infer_and_convert_series

\* A cell is [t |-> its type, v |-> its value as text]. An object column, as
\* pandas reads it, holds strings and NaN.
NaN == [t |-> "NaN", v |-> ""]
NaT == [t |-> "NaT", v |-> ""]
Str(text) == [t |-> "str", v |-> text]

\* The strings the model draws cells from.
RawTexts == {" ", "abc", " abc", "2020-01-01", "20200101", "1", "1 days"}
RawCells == {NaN} \cup {Str(x) : x \in RawTexts}

\* pandas as a black box: which of pd.to_datetime, pd.to_numeric and
\* pd.to_timedelta take the string without raising.
Accepts(text) ==
    CASE text = "2020-01-01" -> {"datetime"}
      [] text = "20200101" -> {"datetime", "numeric"}
      [] text = "1" -> {"numeric", "timedelta"}
      [] text = "1 days" -> {"timedelta"}
      [] OTHER -> {}

\* str.strip()
Strip(text) ==
    CASE text = " " -> ""
      [] text = " abc" -> "abc"
      [] OTHER -> text

\* isnull()
IsMissing(c) == c.t \in {"NaN", "NaT"}

\* s.dropna(), then sample[sample.astype(str).str.strip() != '']
Sample(cells) ==
    {i \in DOMAIN cells : ~IsMissing(cells[i]) /\ Strip(cells[i].v) # ""}

\* pd.to_datetime / to_numeric / to_timedelta (sample, errors='raise'):
\* returns when every sampled value is accepted, raises otherwise.
Raises(cells, parser) ==
    \E i \in Sample(cells) : parser \notin Accepts(cells[i].v)

\* The value each parser makes of a string it accepts.
Parsed(parser, text) ==
    CASE parser = "datetime" -> [t |-> "datetime64", v |-> "2020-01-01"]
      [] parser = "numeric" -> [t |-> "float", v |-> text]
      [] parser = "timedelta" ->
            [t |-> "timedelta64", v |-> IF text = "1" THEN "1ns" ELSE text]

\* pd.to_xxx(s, errors='coerce') on one cell of the full column: what does
\* not parse becomes the type's missing marker.
Coerce(parser, c) ==
    IF c.t = "str" /\ parser \in Accepts(c.v) THEN Parsed(parser, c.v)
    ELSE IF parser = "numeric" THEN NaN ELSE NaT

DtypeOf(parser) ==
    CASE parser = "datetime" -> "datetime64[ns]"
      [] parser = "numeric" -> "float64"
      [] parser = "timedelta" -> "timedelta64[ns]"

Converted(s, parser) ==
    [dtype |-> DtypeOf(parser),
     cells |-> [i \in DOMAIN s.cells |-> Coerce(parser, s.cells[i])]]

\* s.astype(str).str.strip(): NaN becomes the string "nan".
AsStrippedStr(c) == IF IsMissing(c) THEN Str("nan") ELSE Str(Strip(c.v))

\* The order in which the try blocks follow one another.
\* (TryOrderNumericFirst: the first two blocks swapped.)
TryOrderNumericFirst == <<"numeric", "datetime", "timedelta">>
TryOrder == <<"datetime", "numeric", "timedelta">>

\* infer_and_convert_series(s), s = [dtype, cells].
infer_and_convert_series(s) ==
    IF s.dtype # "object" THEN s
    ELSE IF Sample(s.cells) = {} THEN s
    ELSE IF ~Raises(s.cells, TryOrder[1]) THEN Converted(s, TryOrder[1])
    ELSE IF ~Raises(s.cells, TryOrder[2]) THEN Converted(s, TryOrder[2])
    ELSE IF ~Raises(s.cells, TryOrder[3]) THEN Converted(s, TryOrder[3])
    ELSE [dtype |-> "object",
          cells |-> [i \in DOMAIN s.cells |-> AsStrippedStr(s.cells[i])]]

\* Columns as read from a file: object columns of strings and NaN, and
\* columns pandas already read as numbers.
NumCells == {NaN, [t |-> "float", v |-> "0"], [t |-> "float", v |-> "1"]}

ColumnsOfLen(n) ==
    {[dtype |-> "object", cells |-> c] : c \in [1..n -> RawCells]}
    \cup {[dtype |-> "float64", cells |-> c] : c \in [1..n -> NumCells]}

CacheIdle ==
    /\ files = InitFiles /\ cache = <<>> /\ log = <<>>
    /\ calls = 0 /\ fresh = 0

InitInfer ==
    /\ \E n \in 0..MaxLen : series \in ColumnsOfLen(n)
    /\ inferred = NotRun
    /\ loaded = NotRun /\ cleaned = NotRun
    /\ df = NotRun /\ reduced = NotRun
    /\ CacheIdle

Infer ==
    /\ inferred = NotRun
    /\ inferred' = infer_and_convert_series(series)
    /\ UNCHANGED <<files, cache, log, calls, fresh, series, loaded, cleaned,
                   df, reduced>>

NextInfer == Infer

SpecInfer == InitInfer /\ [][NextInfer]_vars

\* Every non-missing, non-blank value of the input column parses as T.
AllParse(T) ==
    \A i \in DOMAIN series.cells :
        (series.cells[i].t = "str" /\ Strip(series.cells[i].v) # "")
            => T \in Accepts(series.cells[i].v)

HasValue ==
    \E i \in DOMAIN series.cells :
        series.cells[i].t = "str" /\ Strip(series.cells[i].v) # ""

\* C6: a string column with at least one non-missing, non-blank value comes
\* back date-time if all those values parse as date-time; else numeric if all
\* parse as numbers; else duration if all parse as durations; else it stays
\* a string column. One value that fails keeps the whole column from the type.
C6_FirstTypeAllValuesParse ==
    (inferred # NotRun /\ series.dtype = "object" /\ HasValue) =>
        /\ (inferred.dtype = "datetime64[ns]") <=> AllParse("datetime")
        /\ (inferred.dtype = "float64") <=>
              (~AllParse("datetime") /\ AllParse("numeric"))
        /\ (inferred.dtype = "timedelta64[ns]") <=>
              (/\ ~AllParse("datetime") /\ ~AllParse("numeric")
               /\ AllParse("timedelta"))
        /\ (inferred.dtype = "object") <=>
              (/\ ~AllParse("datetime") /\ ~AllParse("numeric")
               /\ ~AllParse("timedelta"))
        /\ Len(inferred.cells) = Len(series.cells)

\* The spec's ["1","2","x"] shape: a column of strings of which two parse
\* as numbers and one parses as nothing was inferred and stayed a string
\* column.
C6_Witness ==
    /\ inferred # NotRun /\ series.dtype = "object"
    /\ \A i \in DOMAIN series.cells : series.cells[i].t = "str"
    /\ \E i, j \in DOMAIN series.cells :
          /\ i # j
          /\ "numeric" \in Accepts(series.cells[i].v)
          /\ "numeric" \in Accepts(series.cells[j].v)
    /\ \E i \in DOMAIN series.cells :
          Accepts(series.cells[i].v) = {} /\ Strip(series.cells[i].v) # ""
    /\ inferred.dtype = "object"

(***************************************************************************)
(*                         Core.py: clean_file                             *)
(***************************************************************************)

\* Bounds of the cleaning specification.
NCols == 2          \* columns of the loaded table
NRows == 2          \* rows of the loaded table

\* A column name is a sequence of characters.
RawNames ==
    {<<"A">>, <<" ", "a">>, <<"a", "-", "b">>, <<"a", " ", "b">>,
     <<"a", "_", "b">>}

\* .str.strip()
RECURSIVE StripLeft(_)
StripLeft(n) == IF n # <<>> /\ Head(n) = " " THEN StripLeft(Tail(n)) ELSE n
RECURSIVE StripRight(_)
StripRight(n) ==
    IF n # <<>> /\ n[Len(n)] = " " THEN StripRight(SubSeq(n, 1, Len(n) - 1))
    ELSE n

\* .str.lower()
LowerChar(ch) == IF ch = "A" THEN "a" ELSE ch

\* .str.replace(' ', "_")
SpaceToUnderscore(ch) == IF ch = " " THEN "_" ELSE ch

\* .str.replace(r'[^0-9a-zA-Z_]', '', regex=True)
WordChars == {"A", "a", "b", "_"}

NormalizeName(n) ==
    LET stripped == StripRight(StripLeft(n))
        lowered == [i \in DOMAIN stripped |-> LowerChar(stripped[i])]
        under == [i \in DOMAIN lowered |-> SpaceToUnderscore(lowered[i])]
    IN SelectIdx(under, {i \in DOMAIN under : under[i] \in WordChars})

\* Tables as smart_load returns them: distinct raw names, columns of one
\* length.
LoadedTables ==
    {[names |-> n, cols |-> c] :
        n \in {x \in [1..NCols -> RawNames] :
                 \A i, j \in 1..NCols : i # j => x[i] # x[j]},
        c \in [1..NCols -> ColumnsOfLen(NRows)]}

NumRows(t) == Len(t.cols[1].cells)
Row(t, r) == [c \in DOMAIN t.cols |-> t.cols[c].cells[r]]

\* df.drop_duplicates(): the rows that equal no earlier row (NaN equal to
\* NaN), in their order.
KeptRows(t) ==
    SelectIdx([r \in 1..NumRows(t) |-> r],
              {r \in 1..NumRows(t) :
                  \A q \in 1..(r - 1) : Row(t, q) # Row(t, r)})

drop_duplicates(t) ==
    [names |-> t.names,
     cols |-> [c \in DOMAIN t.cols |->
                 [dtype |-> t.cols[c].dtype,
                  cells |-> [k \in DOMAIN KeptRows(t) |->
                               t.cols[c].cells[KeptRows(t)[k]]]]]]

\* Two columns carry the label: df[col] is then a frame, not a column, and
\* is_object_dtype, is_numeric_dtype and is_datetime64_any_dtype are False
\* of it.
Collides(names, c) == \E d \in DOMAIN names : d # c /\ names[d] = names[c]

\* fillna(0), fillna(pd.NaT), fillna('unknown') on one column.
FillWith(col, value) ==
    [dtype |-> IF value.t = "str" /\ \E i \in DOMAIN col.cells :
                                        IsMissing(col.cells[i])
               THEN "object" ELSE col.dtype,
     cells |-> [i \in DOMAIN col.cells |->
                  IF IsMissing(col.cells[i]) THEN value ELSE col.cells[i]]]

FillMissing(names, c, col) ==
    IF Collides(names, c) THEN FillWith(col, Str("unknown"))
    ELSE IF col.dtype = "float64" THEN FillWith(col, [t |-> "float", v |-> "0"])
    ELSE IF col.dtype = "datetime64[ns]" THEN FillWith(col, NaT)
    ELSE FillWith(col, Str("unknown"))

InferColumn(names, c, col) ==
    IF ~Collides(names, c) /\ col.dtype = "object"
    THEN infer_and_convert_series(col) ELSE col

\* clean_file, from the table smart_load returned: copy, drop duplicate
\* rows, normalize the names, infer the object columns, fill what is missing.
clean_file(t) ==
    LET deduped == drop_duplicates(t)
        names == [c \in DOMAIN t.names |-> NormalizeName(t.names[c])]
        typed == [c \in DOMAIN deduped.cols |->
                    InferColumn(names, c, deduped.cols[c])]
    IN [names |-> names,
        cols |-> [c \in DOMAIN typed |-> FillMissing(names, c, typed[c])]]

InitClean ==
    /\ loaded \in LoadedTables
    /\ cleaned = NotRun
    /\ series = <<>> /\ inferred = NotRun
    /\ df = NotRun /\ reduced = NotRun
    /\ CacheIdle

CleanFile ==
    /\ cleaned = NotRun
    /\ cleaned' = clean_file(loaded)
    /\ UNCHANGED <<files, cache, log, calls, fresh, series, inferred, loaded,
                   df, reduced>>

NextClean == CleanFile

SpecClean == InitClean /\ [][NextClean]_vars

\* C3: the table clean_file returns holds no missing marker in any cell.
C3_NoMissingAfterClean ==
    cleaned # NotRun =>
        \A c \in DOMAIN cleaned.cols : \A r \in DOMAIN cleaned.cols[c].cells :
            ~IsMissing(cleaned.cols[c].cells[r])

\* C4: in every column of the cleaned table whose final type is neither
\* numeric nor date-time, every cell that was missing in the loaded table
\* holds the string "unknown".
C4_MissingBecomesUnknown ==
    cleaned # NotRun =>
        \A c \in DOMAIN cleaned.cols :
            cleaned.cols[c].dtype \notin {"float64", "datetime64[ns]"} =>
                \A k \in DOMAIN KeptRows(loaded) :
                    IsMissing(loaded.cols[c].cells[KeptRows(loaded)[k]])
                        => cleaned.cols[c].cells[k] = Str("unknown")

\* C5: no two rows of the table clean_file returns are equal in every column.
C5_NoDuplicateRowsAfterClean ==
    cleaned # NotRun =>
        \A q, r \in 1..NumRows(cleaned) :
            q # r => Row(cleaned, q) # Row(cleaned, r)

\* C9: the columns of the table clean_file returns have pairwise distinct
\* names and one length.
C9_UniqueNamesEqualLengths ==
    cleaned # NotRun =>
        /\ \A c, d \in DOMAIN cleaned.names :
              c # d => cleaned.names[c] # cleaned.names[d]
        /\ \A c, d \in DOMAIN cleaned.cols :
              Len(cleaned.cols[c].cells) = Len(cleaned.cols[d].cells)

(***************************************************************************)
(*                Core.py: find_similar_col_to_remove                      *)
(***************************************************************************)

\* Bound of the correlation specification.
MaxCorrCols == 3    \* columns of the numeric table

\* (upper[column] > 0.95), in hundredths.
ThresholdPct == 95

ColLabels == <<"A", "B", "C", "D", "E", "F">>

\* The columns of Tests.py's test_removing_similar_col.
TestA == <<1, 2, 3, 4, 5>>
TestB == <<2, 4, 6, 8, 10>>
TestC == <<5, 3, 1, 0, -1>>

\* The columns the model draws numeric tables from: the test's three, two
\* that form a chain with A, a constant one and one uncorrelated with A.
ColumnPool ==
    {TestA, TestB, TestC, <<0, 0, 1, 2, 3>>, <<0, 0, 1, 1, 2>>,
     <<3, 3, 3, 3, 3>>, <<1, 0, 1, 0, 1>>}

NumericTables ==
    {[names |-> [i \in DOMAIN c |-> ColLabels[i]], cols |-> c] :
        c \in SeqsUpTo(ColumnPool, MaxCorrCols)}

RECURSIVE SumOver(_, _)
SumOver(f, n) == IF n = 0 THEN 0 ELSE f[n] + SumOver(f, n - 1)

\* Pearson's r of two columns, kept exact: r = cov / sqrt(vx * vy), each of
\* the three scaled by n * n; r is NaN when a column is constant.
Pearson(x, y) ==
    LET n == Len(x)
        sx == SumOver(x, n)
        sy == SumOver(y, n)
        sxy == SumOver([i \in 1..n |-> x[i] * y[i]], n)
        sxx == SumOver([i \in 1..n |-> x[i] * x[i]], n)
        syy == SumOver([i \in 1..n |-> y[i] * y[i]], n)
    IN [cov |-> n * sxy - sx * sy,
        vx |-> n * sxx - sx * sx,
        vy |-> n * syy - sy * sy]

IsNaN(r) == r.vx * r.vy = 0

\* .abs()
Abs(r) == [r EXCEPT !.cov = IF r.cov < 0 THEN -r.cov ELSE r.cov]

\* r > 0.95 (False of NaN)
Above(r) ==
    /\ ~IsNaN(r)
    /\ r.cov > 0
    /\ 100 * 100 * r.cov * r.cov > ThresholdPct * ThresholdPct * r.vx * r.vy

\* df.corr().abs()
corr_matrix(t) ==
    [i \in DOMAIN t.cols |-> [j \in DOMAIN t.cols |->
        Abs(Pearson(t.cols[i], t.cols[j]))]]

\* np.triu(np.ones(shape), k=1).astype(bool): row i, column j, strictly above
\* the diagonal. (AnyOffDiagonal: a mask of everything but the diagonal.)
AnyOffDiagonal(i, j) == i # j
UpperMask(i, j) == i < j

\* corr_matrix.where(mask): the entries outside the mask become NaN, and a
\* NaN is not above the threshold.
UpperAbove(t, i, j) == UpperMask(i, j) /\ Above(corr_matrix(t)[i][j])

\* [column for column in upper.columns if (upper[column] > 0.95).any()]
to_drop(t) ==
    {t.names[j] : j \in {j \in DOMAIN t.cols :
                            \E i \in DOMAIN t.cols : UpperAbove(t, i, j)}}

\* find_similar_col_to_remove: df.drop(columns=to_drop)
find_similar_col_to_remove(t) ==
    LET keep == {j \in DOMAIN t.names : t.names[j] \notin to_drop(t)}
    IN [names |-> SelectIdx(t.names, keep), cols |-> SelectIdx(t.cols, keep)]

InitCorr ==
    /\ df \in NumericTables
    /\ reduced = NotRun
    /\ series = <<>> /\ inferred = NotRun
    /\ loaded = NotRun /\ cleaned = NotRun
    /\ CacheIdle

FindSimilar ==
    /\ reduced = NotRun
    /\ reduced' = find_similar_col_to_remove(df)
    /\ UNCHANGED <<files, cache, log, calls, fresh, series, inferred, loaded,
                   cleaned, df>>

NextCorr == FindSimilar

SpecCorr == InitCorr /\ [][NextCorr]_vars

IsTestTable == df.names = <<"A", "B", "C">> /\ df.cols = <<TestA, TestB, TestC>>

\* C7: for the test's table A, B, C the returned table does not contain B
\* and contains A and C.
C7_TestDropsOnlyB ==
    (reduced # NotRun /\ IsTestTable) =>
        /\ "B" \notin Range(reduced.names)
        /\ "A" \in Range(reduced.names)
        /\ "C" \in Range(reduced.names)

\* The absolute correlation of columns i and j of the input is above 0.95.
Correlated(i, j) == Above(Abs(Pearson(df.cols[i], df.cols[j])))

Survivors == {j \in DOMAIN df.cols : \A i \in 1..(j - 1) : ~Correlated(i, j)}

C10_RemovedHasRetainedPartner ==
    reduced # NotRun =>
        \A j \in DOMAIN df.cols :
            df.names[j] \notin Range(reduced.names) =>
                \E i \in DOMAIN df.cols :
                    /\ df.names[i] \in Range(reduced.names)
                    /\ Correlated(i, j)

====
